---- MODULE Spec2Model ----
(***************************************************************************)
(* Monte Carlo estimation of pi with a map-reduce executor                 *)
(* (src/montecarlo/pi_estimation/pi_estimation.ipynb).                     *)
(*                                                                         *)
(* The notebook computes with Python floats, i.e. IEEE-754 binary64 with   *)
(* round-to-nearest-even.  The model keeps the full 53-bit significand:    *)
(* a non-negative float is a record [hi, lo, e] whose value is             *)
(*     (hi * 2^27 + lo) * 2^e                                              *)
(* with 2^25 <= hi < 2^26 and 0 <= lo < 2^27 (a normalised 53-bit          *)
(* significand split in two limbs so that every intermediate fits the      *)
(* model checker's integers), or FZero.  All values of the program lie in  *)
(* [0, MAP_INSTANCES + 1], far from overflow and from the subnormals.      *)
(***************************************************************************)
EXTENDS Integers, Sequences, FiniteSets, TLC

VARIABLES
    randomize_per_map,  \* EstimatePI.randomize_per_map, the trials per task
    iterdata,           \* the placeholders handed to the map tasks
    dpc,                \* position of the driver cell
    status,             \* per task: "idle", "pending", "running", "done", "failed"
    in_circle,          \* per task: the local accumulator of randomize_points
    it,                 \* per task: iterations of the loop done so far
    hits,               \* per task: its own draws that fell inside the circle
    fraction,           \* per task: the value randomize_points returned
    produced,           \* per task: how often a partial result was produced
    consumed,           \* per task: how often a reduce step read its result
    reduceCalls,        \* invocations of process_in_circle_points by the executor
    results,            \* the sequence handed to process_in_circle_points
    outcome,            \* what process_in_circle_points(results) did
    permuted,           \* a permutation of results, handed to a second call
    outcome2,           \* what process_in_circle_points(permuted) did
    result              \* pw.get_result()

vars == <<randomize_per_map, iterdata, dpc, status, in_circle, it, hits, fraction,
          produced, consumed, reduceCalls, results, outcome, permuted, outcome2,
          result>>

\* ------------------------------------------------------------ bounds
\* Number of map tasks; the notebook sets 100, the model a small number.
MAP_INSTANCES == 3

\* Largest trial count per task the model configures (the notebook: 10,000,000).
MaxTrials == 3

\* random() is modelled by the grid points i / GridSize, i in 0..GridSize-1.
GridSize == 4

\* Largest placeholder value handed to randomize_points.
MaxData == 2

\* ------------------------------------------------- binary64 arithmetic
LoBase == 2^27
HiBase == 2^26
HiMin == 2^25

FZero == [hi |-> 0, lo |-> 0, e |-> 0]

IsZero(a) == a.hi = 0

\* One step of a right shift that keeps a guard bit g and a sticky bit s.
ShiftR1(x) ==
    [hi |-> x.hi \div 2,
     lo |-> (x.lo \div 2) + ((x.hi % 2) * (LoBase \div 2)),
     g  |-> x.lo % 2,
     s  |-> IF x.g = 1 \/ x.s = 1 THEN 1 ELSE 0]

\* Right shift of the significand hi:lo by 0 <= d <= 53 places; g is the
\* first bit shifted out and s tells whether any bit below it was set.
ShiftR(x, d) ==
    IF d = 0 THEN x
    ELSE IF d <= 27
    THEN LET out == x.lo % (2 ^ d)
         IN  [hi |-> x.hi \div (2 ^ d),
              lo |-> (x.lo \div (2 ^ d)) + ((x.hi % (2 ^ d)) * (2 ^ (27 - d))),
              g  |-> out \div (2 ^ (d - 1)),
              s  |-> IF out % (2 ^ (d - 1)) # 0 THEN 1 ELSE 0]
    ELSE LET out == x.hi % (2 ^ (d - 27))
         IN  [hi |-> 0,
              lo |-> x.hi \div (2 ^ (d - 27)),
              g  |-> out \div (2 ^ (d - 28)),
              s  |-> IF out % (2 ^ (d - 28)) # 0 \/ x.lo # 0 THEN 1 ELSE 0]

\* One step of a left shift of the three limbs hi, lo, ext.
ShiftL1(x) ==
    [hi  |-> (2 * x.hi) + (x.lo \div (LoBase \div 2)),
     lo  |-> ((2 * x.lo) % LoBase) + (x.ext \div (LoBase \div 2)),
     ext |-> (2 * x.ext) % LoBase,
     e   |-> x.e - 1]

RECURSIVE NormL(_)
NormL(x) == IF x.hi >= HiMin THEN x ELSE NormL(ShiftL1(x))

\* Round to nearest, ties to even: the significand hi:lo followed by the
\* guard bit g and the sticky bit s.
RoundNE(hi, lo, g, s, e) ==
    IF g = 1 /\ (s = 1 \/ lo % 2 = 1)
    THEN IF lo + 1 < LoBase THEN [hi |-> hi, lo |-> lo + 1, e |-> e]
         ELSE IF hi + 1 < HiBase THEN [hi |-> hi + 1, lo |-> 0, e |-> e]
         ELSE [hi |-> HiMin, lo |-> 0, e |-> e + 1]
    ELSE [hi |-> hi, lo |-> lo, e |-> e]

\* int -> float, exact for 0 <= k < 2^26.
FromInt(k) ==
    IF k = 0 THEN FZero
    ELSE LET n == NormL([hi |-> k, lo |-> 0, ext |-> 0, e |-> -27])
         IN  [hi |-> n.hi, lo |-> n.lo, e |-> n.e]

\* a + b for a.e >= b.e, both non-zero.
FAddOrdered(a, b) ==
    LET d == a.e - b.e
    IN  IF d >= 54 THEN a
        ELSE LET x   == ShiftR([hi |-> b.hi, lo |-> b.lo, g |-> 0, s |-> 0], d)
                 lo0 == a.lo + x.lo
                 hi0 == a.hi + x.hi + (lo0 \div LoBase)
                 sum == [hi |-> hi0, lo |-> lo0 % LoBase, g |-> x.g, s |-> x.s]
             IN  IF hi0 < HiBase
                 THEN RoundNE(sum.hi, sum.lo, sum.g, sum.s, a.e)
                 ELSE LET y == ShiftR1(sum)
                      IN  RoundNE(y.hi, y.lo, y.g, y.s, a.e + 1)

\* float + float, correctly rounded (both operands >= 0).
FAdd(a, b) ==
    IF IsZero(a) THEN b
    ELSE IF IsZero(b) THEN a
    ELSE IF a.e >= b.e THEN FAddOrdered(a, b) ELSE FAddOrdered(b, a)

\* Long division by n < 2^26, up to four bits at a time: the nbits low bits
\* of limb are brought down behind the remainder r < n; q collects the
\* quotient.
RECURSIVE DivStep(_, _, _, _, _)
DivStep(q, r, limb, nbits, n) ==
    IF nbits = 0 THEN [q |-> q, r |-> r]
    ELSE LET w   == IF nbits >= 4 THEN 4 ELSE nbits
             cur == (r * (2 ^ w)) + (limb \div (2 ^ (nbits - w)))
         IN  DivStep((q * (2 ^ w)) + (cur \div n), cur % n,
                     limb % (2 ^ (nbits - w)), nbits - w, n)

DivLimb(r, limb, nbits, n) == DivStep(0, r, limb, nbits, n)

\* float / int for 0 < n < 2^26, correctly rounded.
FDivInt(a, n) ==
    IF IsZero(a) THEN FZero
    ELSE LET qh == DivLimb(0, a.hi, 26, n)
             ql == DivLimb(qh.r, a.lo, 27, n)
             qe == DivLimb(ql.r, 0, 27, n)
             x  == NormL([hi |-> qh.q, lo |-> ql.q, ext |-> qe.q, e |-> a.e])
             g  == x.ext \div (LoBase \div 2)
             s  == IF x.ext % (LoBase \div 2) # 0 \/ qe.r # 0 THEN 1 ELSE 0
         IN  RoundNE(x.hi, x.lo, g, s, x.e)

\* 4 * float: exact, the exponent grows by two.
FMul4(a) == IF IsZero(a) THEN FZero ELSE [hi |-> a.hi, lo |-> a.lo, e |-> a.e + 2]

\* a <= b and a < b on non-negative floats.
FLess(a, b) ==
    IF IsZero(b) THEN FALSE
    ELSE IF IsZero(a) THEN TRUE
    ELSE \/ a.e < b.e
         \/ a.e = b.e /\ a.hi < b.hi
         \/ a.e = b.e /\ a.hi = b.hi /\ a.lo < b.lo

FLeq(a, b) == a = b \/ FLess(a, b)

FOne == FromInt(1)
FFour == FromInt(4)

\* Placeholders for "no value yet".
NoFloat == [hi |-> -1, lo |-> 0, e |-> 0]
NoOutcome == [err |-> "unset", val |-> NoFloat]

\* Python's true division: ZeroDivisionError on a zero divisor.
Divide(a, n) ==
    IF n = 0 THEN [err |-> "ZeroDivisionError", val |-> NoFloat]
    ELSE [err |-> "none", val |-> FDivInt(a, n)]

\* ------------------------------------------------------- EstimatePI
\* random(): a point of [0, 1), here numerator over GridSize.
Grid == 0 .. (GridSize - 1)

\* predicate(): (x ** 2) + (y ** 2) <= 1 for x = i / GridSize, y = j / GridSize.
predicate(i, j) == (i * i) + (j * j) <= GridSize * GridSize

\* What one call of predicate() can return, over all pairs of draws.
DrawOutcomes == {predicate(x, y) : x \in Grid, y \in Grid}

\* in_circle += <bool>: True counts 1, False counts 0.
BoolDouble(b) == IF b THEN 2 ELSE 0
BoolToInt(b) == IF b THEN 1 ELSE 0

\* in_circle = 0 at the start of randomize_points(self, data).
InitInCircleSeeded(data) == data
InitInCircle(data) == 0

\* for _ in range(self.randomize_per_map): another iteration after `done`?
LoopHasNextInclusive(done, T) == done <= T
LoopHasNext(done, T) == done < T

\* in_circle += inc in invocation i: the accumulator is a local of the call.
AddInCircleShared(acc, i, inc) == [j \in DOMAIN acc |-> acc[j] + inc]
AddInCircle(acc, i, inc) == [acc EXCEPT ![i] = @ + inc]

\* return float(in_circle / self.randomize_per_map)
RandomizeReturn(count, T) == Divide(FromInt(count), T)

\* in_circle_percent = 0; for map_result in results: in_circle_percent += map_result
RECURSIVE SumFrom(_, _, _)
SumFrom(acc, seq, k) ==
    IF k > Len(seq) THEN acc ELSE SumFrom(FAdd(acc, seq[k]), seq, k + 1)

SumResults(seq) == SumFrom(FZero, seq, 1)

\* The divisor of the reduce step: the module-level MAP_INSTANCES.
ReduceDivisorLen(seq) == Len(seq)
ReduceDivisorOffByOne(seq) == MAP_INSTANCES + 1
ReduceDivisor(seq) == MAP_INSTANCES

\* estimate_PI = float(4 * (in_circle_percent / MAP_INSTANCES)); return estimate_PI
process_in_circle_points(seq) ==
    LET q == Divide(SumResults(seq), ReduceDivisor(seq))
    IN  IF q.err # "none" THEN q ELSE [err |-> "none", val |-> FMul4(q.val)]

\* iterdata = [0] * MAP_INSTANCES
DriverIterdataExtra == [i \in 1 .. (MAP_INSTANCES + 1) |-> 0]
DriverIterdata == [i \in 1 .. MAP_INSTANCES |-> 0]

Tasks == DOMAIN iterdata

\* The permutations of 1..n, for n up to MAP_INSTANCES + 1.
PermsOf ==
    [n \in 0 .. (MAP_INSTANCES + 1) |->
        {p \in [1 .. n -> 1 .. n] : \A a, b \in 1 .. n : p[a] = p[b] => a = b}]

\* The sequences that are permutations of seq.
Rearrangements(seq) == {[k \in 1 .. Len(seq) |-> seq[p[k]]] : p \in PermsOf[Len(seq)]}

\* The fractions randomize_points can return with T trials.
FractionsOf(T) == {FDivInt(FromInt(k), T) : k \in 0 .. T}

\* The sequences of fractions of length at most n.
SeqsUpTo(S, n) == UNION {[1 .. k -> S] : k \in 0 .. n}

taskVars == <<status, in_circle, it, hits, fraction, produced>>
reduceVars == <<results, outcome, consumed, reduceCalls>>
pureVars == <<permuted, outcome2>>
cfgVars == <<randomize_per_map, iterdata>>

\* ------------------------------------------------------ the map tasks
\* The executor starts invocation i: randomize_points(iterdata[i]) enters.
TaskStart(i) ==
    /\ status[i] = "pending"
    /\ status' = [status EXCEPT ![i] = "running"]
    /\ in_circle' = [in_circle EXCEPT ![i] = InitInCircle(iterdata[i])]
    /\ it' = [it EXCEPT ![i] = 0]
    /\ UNCHANGED <<hits, fraction, produced, cfgVars, dpc, reduceVars, pureVars, result>>

\* One iteration of the loop of invocation i: in_circle += self.predicate().
TaskDraw(i) ==
    /\ status[i] = "running"
    /\ LoopHasNext(it[i], randomize_per_map)
    /\ \E inside \in DrawOutcomes :
          /\ in_circle' = AddInCircle(in_circle, i, BoolToInt(inside))
          /\ hits' = [hits EXCEPT ![i] = @ + (IF inside THEN 1 ELSE 0)]
    /\ it' = [it EXCEPT ![i] = @ + 1]
    /\ UNCHANGED <<status, fraction, produced, cfgVars, dpc, reduceVars, pureVars, result>>

\* The loop of invocation i is over: it returns its fraction.
TaskReturn(i) ==
    /\ status[i] = "running"
    /\ ~LoopHasNext(it[i], randomize_per_map)
    /\ LET r == RandomizeReturn(in_circle[i], randomize_per_map)
       IN  IF r.err = "none"
           THEN /\ status' = [status EXCEPT ![i] = "done"]
                /\ fraction' = [fraction EXCEPT ![i] = r.val]
                /\ produced' = [produced EXCEPT ![i] = @ + 1]
           ELSE /\ status' = [status EXCEPT ![i] = "failed"]
                /\ UNCHANGED <<fraction, produced>>
    /\ UNCHANGED <<in_circle, it, hits, cfgVars, dpc, reduceVars, pureVars, result>>

\* ---------------------------------------------------------- the driver
\* pw.map_reduce(est_pi.randomize_points, iterdata, est_pi.process_in_circle_points):
\* one map task per element of iterdata.
MapReduce ==
    /\ dpc = "start"
    /\ dpc' = "submitted"
    /\ status' = [i \in Tasks |-> "pending"]
    /\ UNCHANGED <<in_circle, it, hits, fraction, produced, cfgVars, reduceVars,
                   pureVars, result>>

\* The executor runs the reduce function once every map task has returned.
ReduceReadyAgain ==
    /\ dpc = "submitted"
    /\ \A i \in Tasks : status[i] = "done"
    /\ reduceCalls < 2
ReduceReady ==
    /\ dpc = "submitted"
    /\ \A i \in Tasks : status[i] = "done"
    /\ reduceCalls = 0

\* The reduce step: process_in_circle_points on the partial results, in the
\* order in which the executor collected them.
Reduce ==
    /\ ReduceReady
    /\ results' \in Rearrangements([k \in 1 .. Cardinality(Tasks) |-> fraction[k]])
    /\ outcome' = process_in_circle_points(results')
    /\ consumed' = [i \in Tasks |-> consumed[i] + 1]
    /\ reduceCalls' = reduceCalls + 1
    /\ UNCHANGED <<taskVars, cfgVars, dpc, pureVars, result>>

\* result = pw.get_result()
GetResult ==
    /\ dpc = "submitted"
    /\ outcome # NoOutcome
    /\ IF outcome.err = "none"
       THEN result' = outcome.val /\ dpc' = "finished"
       ELSE UNCHANGED result /\ dpc' = "failed"
    /\ UNCHANGED <<taskVars, cfgVars, reduceVars, pureVars>>

Init ==
    /\ randomize_per_map \in 1 .. MaxTrials
    /\ iterdata = DriverIterdata
    /\ dpc = "start"
    /\ status = [i \in Tasks |-> "idle"]
    /\ in_circle = [i \in Tasks |-> 0]
    /\ it = [i \in Tasks |-> 0]
    /\ hits = [i \in Tasks |-> 0]
    /\ fraction = [i \in Tasks |-> NoFloat]
    /\ produced = [i \in Tasks |-> 0]
    /\ consumed = [i \in Tasks |-> 0]
    /\ reduceCalls = 0
    /\ results = <<>>
    /\ outcome = NoOutcome
    /\ permuted = <<>>
    /\ outcome2 = NoOutcome
    /\ result = NoFloat

Next ==
    \/ MapReduce
    \/ \E i \in Tasks : TaskStart(i)
    \/ \E i \in Tasks : TaskDraw(i)
    \/ \E i \in Tasks : TaskReturn(i)
    \/ Reduce
    \/ GetResult

Spec == Init /\ [][Next]_vars

\* ------------------------------------- two invocations, the same draws
\* Two invocations of randomize_points with arbitrary placeholders consume
\* the same sequence of random draws.
RECURSIVE AddInAll(_, _, _)
AddInAll(acc, S, inc) ==
    IF S = {} THEN acc
    ELSE LET i == CHOOSE j \in S : TRUE
         IN  AddInAll(AddInCircle(acc, i, inc), S \ {i}, inc)

SamplerDraw ==
    LET live == {i \in Tasks : status[i] = "running" /\ LoopHasNext(it[i], randomize_per_map)}
    IN  /\ live # {}
        /\ \E inside \in DrawOutcomes :
              /\ in_circle' = AddInAll(in_circle, live, BoolToInt(inside))
              /\ hits' = [i \in Tasks |->
                            IF i \in live /\ inside THEN hits[i] + 1 ELSE hits[i]]
        /\ it' = [i \in Tasks |-> IF i \in live THEN it[i] + 1 ELSE it[i]]
        /\ UNCHANGED <<status, fraction, produced, cfgVars, dpc, reduceVars, pureVars,
                       result>>

InitSampler ==
    /\ randomize_per_map \in 1 .. MaxTrials
    /\ iterdata \in [1 .. 2 -> 0 .. MaxData]
    /\ dpc = "sampler"
    /\ status = [i \in Tasks |-> "running"]
    /\ in_circle = [i \in Tasks |-> InitInCircle(iterdata[i])]
    /\ it = [i \in Tasks |-> 0]
    /\ hits = [i \in Tasks |-> 0]
    /\ fraction = [i \in Tasks |-> NoFloat]
    /\ produced = [i \in Tasks |-> 0]
    /\ consumed = [i \in Tasks |-> 0]
    /\ reduceCalls = 0
    /\ results = <<>>
    /\ outcome = NoOutcome
    /\ permuted = <<>>
    /\ outcome2 = NoOutcome
    /\ result = NoFloat

NextSampler ==
    \/ SamplerDraw
    \/ \E i \in Tasks : TaskReturn(i)

SpecSampler == InitSampler /\ [][NextSampler]_vars

\* ------------------------------------------- the reduce function alone
\* process_in_circle_points(results)
CallReduce ==
    /\ dpc = "reduce"
    /\ outcome = NoOutcome
    /\ outcome' = process_in_circle_points(results)
    /\ UNCHANGED <<taskVars, cfgVars, dpc, results, consumed, reduceCalls, pureVars,
                   result>>

\* A second call, process_in_circle_points(permuted), on a permutation of results
CallReducePermuted ==
    /\ dpc = "reduce"
    /\ outcome # NoOutcome
    /\ outcome2 = NoOutcome
    /\ permuted' \in Rearrangements(results)
    /\ outcome2' = process_in_circle_points(permuted')
    /\ UNCHANGED <<taskVars, cfgVars, dpc, reduceVars, result>>

InitReduce ==
    /\ randomize_per_map \in 1 .. MaxTrials
    /\ iterdata = DriverIterdata
    /\ dpc = "reduce"
    /\ status = [i \in Tasks |-> "idle"]
    /\ in_circle = [i \in Tasks |-> 0]
    /\ it = [i \in Tasks |-> 0]
    /\ hits = [i \in Tasks |-> 0]
    /\ fraction = [i \in Tasks |-> NoFloat]
    /\ produced = [i \in Tasks |-> 0]
    /\ consumed = [i \in Tasks |-> 0]
    /\ reduceCalls = 0
    /\ results \in SeqsUpTo(FractionsOf(randomize_per_map), MAP_INSTANCES + 1)
    /\ outcome = NoOutcome
    /\ permuted = <<>>
    /\ outcome2 = NoOutcome
    /\ result = NoFloat

NextReduce ==
    \/ CallReduce
    \/ CallReducePermuted

SpecReduce == InitReduce /\ [][NextReduce]_vars

\* ============================================================== claims
\* sum(seq) as the claims write it: the floats added from left to right.
RECURSIVE PySum(_)
PySum(seq) ==
    IF seq = <<>> THEN FZero
    ELSE FAdd(PySum(SubSeq(seq, 1, Len(seq) - 1)), seq[Len(seq)])

\* The draws inside the circle, over all map tasks.
RECURSIVE TotalOver(_, _)
TotalOver(f, S) ==
    IF S = {} THEN 0
    ELSE LET i == CHOOSE j \in S : TRUE IN f[i] + TotalOver(f, S \ {i})

TotalHits == TotalOver(hits, Tasks)

\* 4 * total / (MAP_INSTANCES * T), evaluated as Python evaluates it.
ExactEstimate == FDivInt(FromInt(4 * TotalHits), MAP_INSTANCES * randomize_per_map)

\* The distance of two positive floats in units in the last place of the
\* one with the smaller exponent; Far when they are not neighbours at all.
Far == 2 ^ 30

Abs(n) == IF n < 0 THEN -n ELSE n

UlpDist(a, b) ==
    IF a = b THEN 0
    ELSE IF IsZero(a) \/ IsZero(b) THEN Far
    ELSE LET x == IF a.e >= b.e THEN a ELSE b
             y == IF a.e >= b.e THEN b ELSE a
         IN  IF x.e = y.e
             THEN IF Abs(x.hi - y.hi) > 1 THEN Far
                  ELSE Abs(((x.hi - y.hi) * LoBase) + (x.lo - y.lo))
             ELSE IF x.e = y.e + 1
             THEN IF (2 * x.hi) - y.hi > 2 THEN Far
                  ELSE ((((2 * x.hi) - y.hi) * LoBase) + (2 * x.lo)) - y.lo
             ELSE Far

\* C1: when the reducer is given as many partial fractions as there are map
\* tasks, it raises nothing and returns 4 * sum(results) / len(results).
C1_FourTimesMean ==
    (outcome # NoOutcome /\ Len(results) = MAP_INSTANCES) =>
        /\ outcome.err = "none"
        /\ outcome.val = FDivInt(FMul4(PySum(results)), Len(results))

C1_Witness ==
    /\ outcome # NoOutcome
    /\ Len(results) = MAP_INSTANCES
    /\ results[1] # results[2]
    /\ outcome.val # FZero

\* C2: in every invocation of randomize_points the accumulator stays between
\* 0 and the number of iterations done so far, and the returned fraction
\* lies in [0, 1].
C2_FractionInUnitInterval ==
    \A i \in Tasks :
        /\ 0 <= in_circle[i]
        /\ in_circle[i] <= it[i]
        /\ status[i] = "done" => FLeq(FZero, fraction[i]) /\ FLeq(fraction[i], FOne)

C2_Witness ==
    \E i \in Tasks :
        /\ status[i] = "done"
        /\ 0 < in_circle[i]
        /\ in_circle[i] < randomize_per_map
        /\ FLess(FZero, fraction[i])
        /\ FLess(fraction[i], FOne)

\* C3: the reducer returns the identical result for a sequence of partial
\* fractions and for every permutation of it.
C3_OrderIndependent ==
    (outcome # NoOutcome /\ outcome2 # NoOutcome) => outcome = outcome2

\* C4: the reduce step is invoked at most once, only when every map task has
\* returned; each task produces its partial result once and the reduce step
\* consumes it exactly once; the driver finishes after exactly one reduce.
C4_ReduceOnceAfterAllMaps ==
    /\ reduceCalls <= 1
    /\ \A i \in Tasks : produced[i] <= 1
    /\ reduceCalls = 0 => \A i \in Tasks : consumed[i] = 0
    /\ reduceCalls = 1 =>
          \A i \in Tasks : status[i] = "done" /\ produced[i] = 1 /\ consumed[i] = 1
    /\ dpc = "finished" => reduceCalls = 1

C4_Witness ==
    /\ dpc = "finished"
    /\ reduceCalls = 1
    /\ \E i, j \in Tasks : fraction[i] # fraction[j]

\* C5 (as claimed): given an empty sequence, the reducer fails with a
\* division by zero.
C5_EmptyRaisesZeroDivision ==
    (outcome # NoOutcome /\ results = <<>>) => outcome.err = "ZeroDivisionError"

\* C5 (amended): given an empty sequence, the reducer raises nothing and
\* returns 0.0.
C5_EmptyReturnsZero ==
    (outcome # NoOutcome /\ results = <<>>) =>
        outcome.err = "none" /\ outcome.val = FZero

C5_Witness == outcome # NoOutcome /\ results = <<>>

\* C6: under every interleaving of the map tasks, the accumulator of an
\* invocation counts its own successful draws only, and the fraction it
\* returns is that count divided by T.
C6_OwnDrawsOnly ==
    \A i \in Tasks :
        /\ status[i] \in {"running", "done"} => in_circle[i] = hits[i]
        /\ status[i] = "done" =>
              fraction[i] = FDivInt(FromInt(hits[i]), randomize_per_map)

C6_Witness ==
    \E i, j \in Tasks :
        /\ status[i] = "done"
        /\ hits[i] > 0
        /\ status[j] = "running"
        /\ it[j] > 0
        /\ hits[j] < hits[i]

\* C7: two invocations of randomize_points that are handed different
\* placeholders and see the same random draws do the same number of draws
\* and return the same fraction.
C7_PlaceholderIgnored ==
    \A i, j \in Tasks :
        (status[i] = "done" /\ status[j] = "done") =>
            it[i] = it[j] /\ fraction[i] = fraction[j]

C7_Witness ==
    /\ iterdata[1] # iterdata[2]
    /\ status[1] = "done"
    /\ status[2] = "done"
    /\ FLess(FZero, fraction[1])

\* C8: with one trial per task, randomize_points does exactly one draw and
\* returns 0.0 or 1.0.
C8_SingleTrial ==
    \A i \in Tasks :
        (randomize_per_map = 1 /\ status[i] = "done") =>
            it[i] = 1 /\ fraction[i] \in {FZero, FOne}

C8_Witness ==
    /\ randomize_per_map = 1
    /\ \E i, j \in Tasks :
          /\ status[i] = "done" /\ fraction[i] = FZero
          /\ status[j] = "done" /\ fraction[j] = FOne

\* C9 (as claimed): when the driver has finished, the number of map tasks
\* equals the reducer's divisor and the estimate equals
\* 4 * total / (MAP_INSTANCES * T) and lies in [0, 4].
C9_ExactEstimate ==
    dpc = "finished" =>
        /\ Len(iterdata) = ReduceDivisor(results)
        /\ result = ExactEstimate
        /\ FLeq(FZero, result) /\ FLeq(result, FFour)

\* C9 (amended): when the driver has finished, the number of map tasks
\* equals the reducer's divisor and the number of partial results, and the
\* estimate lies in [0, 4] and is within 2 * (MAP_INSTANCES + 2) units in the
\* last place of 4 * total / (MAP_INSTANCES * T).
C9_EstimateUpToRounding ==
    dpc = "finished" =>
        /\ Len(iterdata) = ReduceDivisor(results)
        /\ Len(results) = Len(iterdata)
        /\ FLeq(FZero, result) /\ FLeq(result, FFour)
        /\ UlpDist(result, ExactEstimate) <= 2 * (MAP_INSTANCES + 2)

C9_Witness ==
    /\ dpc = "finished"
    /\ result # ExactEstimate
    /\ UlpDist(result, ExactEstimate) > 0

\* C10: given a sequence whose length differs from MAP_INSTANCES, the reducer
\* raises nothing and returns 4 * sum(results) / MAP_INSTANCES; with fewer
\* entries and a positive sum that is strictly less than 4 times the mean
\* of the entries.
C10_DivisorIsMapInstances ==
    (outcome # NoOutcome /\ Len(results) # MAP_INSTANCES) =>
        /\ outcome.err = "none"
        /\ outcome.val = FMul4(FDivInt(PySum(results), MAP_INSTANCES))
        /\ (0 < Len(results) /\ Len(results) < MAP_INSTANCES
                /\ FLess(FZero, PySum(results))) =>
              FLess(outcome.val, FMul4(FDivInt(PySum(results), Len(results))))

C10_Witness ==
    /\ outcome # NoOutcome
    /\ 0 < Len(results)
    /\ Len(results) < MAP_INSTANCES
    /\ FLess(FZero, PySum(results))
    /\ results[1] # results[Len(results)]

====
